---- MODULE Spec2Model ----
(***************************************************************************)
(* Model of the simulation engine of proi_pred.py: run_simulation builds   *)
(* a time grid, integrates the Lotka-Volterra field with solve_ivp and     *)
(* then scans the samples once, overriding both series from the first      *)
(* sample where a population is below 1.                                   *)
(*                                                                         *)
(* Numbers.  A population is 0 or a signed power of two, s * 2^e, kept as  *)
(* the record [s, e]: products and comparisons are exact.  A time is an    *)
(* integer in units of 1/TScale, TScale a common multiple of every         *)
(* possible points-1, so that the grid of np.linspace is exact.  A rate r  *)
(* stands for the real rate r * TScale * ln 2, so that                     *)
(* exp(rate * (t[j] - t[i])) is exactly 2^(r * (t[j] - t[i])).             *)
(***************************************************************************)
EXTENDS Integers, Sequences, FiniteSets

\* ---- bounds of the model ----
MaxPoints == 3
MaxT == 1
MaxRate == 1

RECURSIVE Fact(_)
Fact(n) == IF n <= 1 THEN 1 ELSE n * Fact(n - 1)

TScale == Fact(MaxPoints - 1)

\* ---- arithmetic ----
Num(sg, ex) == [s |-> sg, e |-> ex]
Zero == Num(0, 0)
One == Num(1, 0)
Half == Num(1, 0 - 1)
Two == Num(1, 1)
MinusOne == Num(0 - 1, 0)

\* a < b
Lt(a, b) ==
    IF a.s # b.s THEN a.s < b.s
    ELSE IF a.s = 1 THEN a.e < b.e
    ELSE IF a.s = 0 - 1 THEN a.e > b.e
    ELSE FALSE

\* a >= b
Geq(a, b) == ~Lt(a, b)

\* np.exp(k * ln 2)
Exp(k) == Num(1, k)

\* a * b
Mul(a, b) == IF a.s = 0 \/ b.s = 0 THEN Zero ELSE Num(a.s * b.s, a.e + b.e)

\* values a raw solver sample may take: negative, below 1, exactly 1, above 1
RawVals == {MinusOne, Half, One, Two}
\* initial populations (non-negative)
InitVals == {Zero, Half, One}
\* initial populations of the pure-growth runs
PureVals == {Zero, Half, One, Two}

VARIABLES pc, alpha, gamma, t_max, points, x0, y0,
          t_eval, t, x, y, xRaw, yRaw, i,
          regime, crossIdx, checked, success, solverCalls

vars == <<pc, alpha, gamma, t_max, points, x0, y0,
          t_eval, t, x, y, xRaw, yRaw, i,
          regime, crossIdx, checked, success, solverCalls>>

\* ---- pure functions of the source ----
\* the vector field, on plain integers
lotka_volterra(tt, z, al, be, de, ga) ==
    <<al * z[1] - be * z[1] * z[2], de * z[1] * z[2] - ga * z[2]>>

\* np.linspace(0, t_max, n): n samples, both ends included; one sample: the start
linspace(tm, n) ==
    [k \in 1..n |-> IF n = 1 THEN 0 ELSE ((k - 1) * tm * TScale) \div (n - 1)]

\* the threshold test of the scan
BelowLeq(v) == ~Lt(One, v)
Below(v) == Lt(v, One)

\* which branch the loop body takes on the sample (xv, yv)
BranchPredFirst(xv, yv) ==
    IF Below(yv) THEN "pred" ELSE IF Below(xv) THEN "prey" ELSE "none"
Branch(xv, yv) ==
    IF Below(xv) THEN "prey" ELSE IF Below(yv) THEN "pred" ELSE "none"

\* x[i:] = 0
ZeroFrom(s, k) == [j \in 1..Len(s) |-> IF j >= k THEN Zero ELSE s[j]]

\* s[i:] = s[i] * np.exp(rate * (t[i:] - t[i]))
ExpFromWrongBase(s, ts, k, rate) ==
    [j \in 1..Len(s) |-> IF j >= k THEN Mul(s[j], Exp(rate * (ts[j] - ts[k]))) ELSE s[j]]
ExpFrom(s, ts, k, rate) ==
    [j \in 1..Len(s) |-> IF j >= k THEN Mul(s[k], Exp(rate * (ts[j] - ts[k]))) ELSE s[j]]

\* the prey branch: prey zeroed, predators decay
PreyExtinctGrow(xs, ys, ts, k, ga) ==
    [x |-> ZeroFrom(xs, k), y |-> ExpFrom(ys, ts, k, ga)]
PreyExtinct(xs, ys, ts, k, ga) ==
    [x |-> ZeroFrom(xs, k), y |-> ExpFrom(ys, ts, k, 0 - ga)]

\* the predator branch: predators zeroed, prey grow
PredExtinctDecay(xs, ys, ts, k, al) ==
    [x |-> ExpFrom(xs, ts, k, 0 - al), y |-> ZeroFrom(ys, k)]
PredExtinct(xs, ys, ts, k, al) ==
    [x |-> ExpFrom(xs, ts, k, al), y |-> ZeroFrom(ys, k)]

\* where the loop goes after the body: break on an override, else next index
AfterBodyNoBreak(b) == "scan"
AfterBody(b) == IF b = "none" THEN "scan" ELSE "return"

\* the exact solution of the field when beta = delta = gamma = 0
ExactX(xi, al, ts) == [k \in 1..Len(ts) |-> Mul(xi, Exp(al * ts[k]))]
ExactY(yi, ts) == [k \in 1..Len(ts) |-> yi]

\* ---- state machine ----
Init ==
    /\ pc = "idle"
    /\ alpha = 0 /\ gamma = 0 /\ t_max = 0 /\ points = 0 /\ x0 = Zero /\ y0 = Zero
    /\ t_eval = <<>> /\ t = <<>> /\ x = <<>> /\ y = <<>>
    /\ xRaw = <<>> /\ yRaw = <<>>
    /\ i = 1
    /\ regime = "RUNNING" /\ crossIdx = 0 /\ checked = {}
    /\ success = TRUE /\ solverCalls = 0

\* entry of run_simulation: the arguments are bound and the grid is built
Enter(al, ga, xi, yi, tm, n) ==
    /\ pc = "idle"
    /\ alpha' = al /\ gamma' = ga /\ x0' = xi /\ y0' = yi
    /\ t_max' = tm /\ points' = n
    /\ t_eval' = linspace(tm, n)
    /\ pc' = "solve"
    /\ UNCHANGED <<t, x, y, xRaw, yRaw, i, regime, crossIdx, checked, success, solverCalls>>

Call ==
    /\ pc = "idle"
    /\ \E al \in 0..MaxRate, ga \in 0..MaxRate, xi \in InitVals, yi \in InitVals,
          tm \in 0..MaxT, n \in 1..MaxPoints :
         Enter(al, ga, xi, yi, tm, n)

CallPure ==
    /\ pc = "idle"
    /\ \E al \in 0..MaxRate, xi \in PureVals, yi \in PureVals,
          tm \in 1..MaxT, n \in 2..MaxPoints :
         Enter(al, 0, xi, yi, tm, n)

\* what solve_ivp hands back: the samples at the first m grid points
\* (m = points on success, fewer when the solver gave up), starting at (x0, y0)
Solved(m, xs, ys) ==
    /\ pc = "solve"
    /\ solverCalls' = solverCalls + 1
    /\ success' = (m = points)
    /\ t' = SubSeq(t_eval, 1, m)
    /\ x' = xs /\ y' = ys
    /\ xRaw' = xs /\ yRaw' = ys
    /\ i' = 1
    /\ pc' = "scan"
    /\ UNCHANGED <<alpha, gamma, t_max, points, x0, y0, t_eval, regime, crossIdx, checked>>

\* the solver's samples are arbitrary: the field's parameters beta and delta
\* and the integration error are not fixed by the model
Solve ==
    /\ pc = "solve"
    /\ \E m \in 1..points :
         \E xs \in [1..(m - 1) -> RawVals], ys \in [1..(m - 1) -> RawVals] :
           Solved(m, <<x0>> \o xs, <<y0>> \o ys)

\* beta = delta = gamma = 0: the field is (alpha x, 0) and the solver
\* returns its exact solution on the whole grid
SolveExact ==
    /\ gamma = 0
    /\ \A p \in 0..2, q \in 0..2 :
           lotka_volterra(0, <<p, q>>, alpha, 0, 0, gamma) = <<alpha * p, 0>>
    /\ Solved(points, <<x0>> \o Tail(ExactX(x0, alpha, t_eval)), <<y0>> \o Tail(ExactY(y0, t_eval)))

\* one iteration of the loop at index i (1-based)
ScanStep ==
    /\ pc = "scan"
    /\ i <= Len(t)
    /\ LET b == Branch(x[i], y[i])
           r == IF b = "prey" THEN PreyExtinct(x, y, t, i, gamma)
                ELSE IF b = "pred" THEN PredExtinct(x, y, t, i, alpha)
                ELSE [x |-> x, y |-> y]
       IN /\ x' = r.x /\ y' = r.y
          /\ checked' = checked \cup {i}
          /\ regime' = IF b = "prey" THEN "PREY_EXTINCT"
                       ELSE IF b = "pred" THEN "PREDATOR_EXTINCT" ELSE regime
          /\ crossIdx' = IF b = "none" \/ crossIdx # 0 THEN crossIdx ELSE i
          /\ pc' = AfterBody(b)
          /\ i' = IF AfterBody(b) = "scan" THEN i + 1 ELSE i
    /\ UNCHANGED <<alpha, gamma, t_max, points, x0, y0, t_eval, t, xRaw, yRaw, success, solverCalls>>

\* the loop ran off the end of the samples
ScanEnd ==
    /\ pc = "scan"
    /\ i > Len(t)
    /\ pc' = "return"
    /\ UNCHANGED <<alpha, gamma, t_max, points, x0, y0, t_eval, t, x, y, xRaw, yRaw, i,
                   regime, crossIdx, checked, success, solverCalls>>

\* return t, x, y
Return ==
    /\ pc = "return"
    /\ pc' = "done"
    /\ UNCHANGED <<alpha, gamma, t_max, points, x0, y0, t_eval, t, x, y, xRaw, yRaw, i,
                   regime, crossIdx, checked, success, solverCalls>>

Next == Call \/ Solve \/ ScanStep \/ ScanEnd \/ Return
Spec == Init /\ [][Next]_vars

NextPure == CallPure \/ SolveExact \/ ScanStep \/ ScanEnd \/ Return
SpecPure == Init /\ [][NextPure]_vars

\* ---- properties ----
\* index k is the first crossing: nothing below 1 before it
NoCrossingBefore(k) == \A j \in 1..(k - 1) : Geq(xRaw[j], One) /\ Geq(yRaw[j], One)

\* samples before k are the solver's
RawBefore(k) == \A j \in 1..(k - 1) : x[j] = xRaw[j] /\ y[j] = yRaw[j]

\* C1: when the call has returned and k is the first index with xRaw[k] < 1,
\* all earlier samples of both series being >= 1, then from k on x is 0 and
\* y is yRaw[k] * exp(-gamma * (t[j] - t[k])), and before k both series are
\* the solver's.
C1_PreyLaw ==
    pc = "done" =>
        \A k \in 1..Len(t) :
            (Lt(xRaw[k], One) /\ NoCrossingBefore(k)) =>
                /\ \A j \in k..Len(t) :
                       /\ x[j] = Zero
                       /\ y[j] = Mul(yRaw[k], Exp((0 - gamma) * (t[j] - t[k])))
                /\ y[k] = yRaw[k]
                /\ RawBefore(k)

\* a prey extinction in mid-run with a visible predator decay afterwards
C1_Witness ==
    /\ pc = "done" /\ gamma > 0 /\ t_max > 0
    /\ \E k \in 2..(Len(t) - 1) :
          /\ Lt(xRaw[k], One) /\ NoCrossingBefore(k)
          /\ Geq(yRaw[k], One) /\ y[k + 1] # y[k] /\ yRaw[k + 1] # y[k + 1]

\* C2: when the call has returned and k is an index with xRaw[k] >= 1 and
\* yRaw[k] < 1, all earlier samples being >= 1, then from k on y is 0 and
\* x is xRaw[k] * exp(alpha * (t[j] - t[k])), and before k both series are
\* the solver's.
C2_PredatorLaw ==
    pc = "done" =>
        \A k \in 1..Len(t) :
            (Geq(xRaw[k], One) /\ Lt(yRaw[k], One) /\ NoCrossingBefore(k)) =>
                /\ \A j \in k..Len(t) :
                       /\ y[j] = Zero
                       /\ x[j] = Mul(xRaw[k], Exp(alpha * (t[j] - t[k])))
                /\ RawBefore(k)

\* a predator extinction in mid-run with a visible prey growth afterwards
C2_Witness ==
    /\ pc = "done" /\ alpha > 0 /\ t_max > 0
    /\ \E k \in 2..(Len(t) - 1) :
          /\ Geq(xRaw[k], One) /\ Lt(yRaw[k], One) /\ NoCrossingBefore(k)
          /\ Lt(x[k], x[k + 1]) /\ xRaw[k + 1] # x[k + 1]

\* C3: when both series are below 1 at the first crossing index, the prey
\* branch alone is applied: the regime is PREY_EXTINCT, x is 0 at the
\* crossing, y keeps its raw value there and decays from it, and y is not
\* zeroed unless the decay itself gives 0.
C3_PreyFirst ==
    pc = "done" =>
        \A k \in 1..Len(t) :
            (Lt(xRaw[k], One) /\ Lt(yRaw[k], One) /\ NoCrossingBefore(k)) =>
                /\ regime = "PREY_EXTINCT"
                /\ crossIdx = k
                /\ x[k] = Zero
                /\ y[k] = yRaw[k]
                /\ \A j \in k..Len(t) :
                       (y[j] = Zero) = (yRaw[k] = Zero)

\* a simultaneous crossing with non-zero raw values of both populations
C3_Witness ==
    /\ pc = "done"
    /\ \E k \in 1..Len(t) :
          /\ Lt(xRaw[k], One) /\ Lt(yRaw[k], One) /\ NoCrossingBefore(k)
          /\ xRaw[k] # Zero /\ yRaw[k] # Zero /\ y[k] # Zero

\* the trajectory an override at index k gives, from the samples up to k only
FromPrefix(px, py, ts, k, r) ==
    [x |-> [j \in 1..Len(ts) |->
               IF j < k THEN px[j]
               ELSE IF r = "PREY_EXTINCT" THEN Zero
               ELSE Mul(px[k], Exp(alpha * (ts[j] - ts[k])))],
     y |-> [j \in 1..Len(ts) |->
               IF j < k THEN py[j]
               ELSE IF r = "PREY_EXTINCT" THEN Mul(py[k], Exp((0 - gamma) * (ts[j] - ts[k])))
               ELSE Zero]]

C4_Step ==
    /\ (regime = "RUNNING" /\ regime' # "RUNNING") =>
           /\ regime' \in {"PREY_EXTINCT", "PREDATOR_EXTINCT"}
           /\ crossIdx' = i
           /\ checked' = 1..i
           /\ pc' = "return"
           /\ LET r == FromPrefix(SubSeq(xRaw, 1, i), SubSeq(yRaw, 1, i), t, i, regime')
              IN x' = r.x /\ y' = r.y
    /\ regime # "RUNNING" =>
           /\ regime' = regime /\ crossIdx' = crossIdx
           /\ checked' = checked
           /\ x' = x /\ y' = y
           /\ pc' \in {"return", "done"}
    /\ (regime' = "RUNNING" /\ pc' \in {"scan", "return", "done"}) =>
           x' = xRaw' /\ y' = yRaw'

\* C4: the scan leaves RUNNING at most once, for PREY_EXTINCT or
\* PREDATOR_EXTINCT, at the first crossing; from then on the regime, the two
\* series and the set of checked indices never change, no later index is
\* checked, and the series are determined by the samples up to the crossing.
C4_OneShot == [][C4_Step]_vars

\* an override followed by raw samples that recover above 1
C4_Witness ==
    /\ pc = "done" /\ regime # "RUNNING"
    /\ \E j \in (crossIdx + 1)..Len(t) : Geq(xRaw[j], One) /\ Geq(yRaw[j], One)
    /\ checked = 1..crossIdx

\* C5: when no solver sample of either series is below 1, the returned
\* series are the solver's and no override fired.
C5_NoOverride ==
    (pc = "done" /\ \A j \in 1..Len(t) : Geq(xRaw[j], One) /\ Geq(yRaw[j], One)) =>
        x = xRaw /\ y = yRaw /\ regime = "RUNNING"

\* a full-length run without crossing that touches the threshold exactly
C5_Witness ==
    /\ pc = "done" /\ success /\ points >= 3
    /\ \A j \in 1..Len(t) : Geq(xRaw[j], One) /\ Geq(yRaw[j], One)
    /\ \E j \in 1..Len(t) : xRaw[j] = One
    /\ \E j \in 1..Len(t) : yRaw[j] = One

\* C6: a call with pointCount < 2 or tMax <= 0 never reaches the solver and
\* never returns a trajectory.
C6_Validation ==
    (pc # "idle" /\ (points < 2 \/ t_max <= 0)) => (solverCalls = 0 /\ pc # "done")

\* strictly increasing sequence
StrictlyIncreasing(s) == \A j \in 1..(Len(s) - 1) : s[j] < s[j + 1]

\* C7: every trajectory returned for a valid input has pointCount samples in
\* each series, starts at time 0, ends at tMax and has increasing times.
C7_Shape ==
    (pc = "done" /\ points >= 2 /\ t_max > 0) =>
        /\ Len(t) = points /\ Len(x) = points /\ Len(y) = points
        /\ t[1] = 0 /\ t[Len(t)] = t_max * TScale
        /\ StrictlyIncreasing(t)

\* C8: after a solver failure the samples are never scanned nor returned.
C8_FailureSurfaced ==
    ~success => (checked = {} /\ pc \notin {"return", "done"})

C10_Invariant ==
    (pc = "done" /\ regime # "RUNNING") =>
        /\ crossIdx \in 1..Len(t)
        /\ \A j \in 1..(crossIdx - 1) : Geq(x[j], One) /\ Geq(y[j], One)
        /\ \/ \A j \in crossIdx..Len(t) : x[j] = Zero
           \/ \A j \in crossIdx..Len(t) : y[j] = Zero
        /\ regime = "PREDATOR_EXTINCT" =>
               \A j \in crossIdx..Len(t) : Geq(x[j], x[crossIdx]) /\ Geq(x[crossIdx], One)

\* a predator extinction in mid-run after which the prey really grow
C10_Witness ==
    /\ pc = "done" /\ regime = "PREDATOR_EXTINCT" /\ alpha > 0
    /\ crossIdx > 1 /\ crossIdx < Len(t)
    /\ Lt(x[crossIdx], x[Len(t)])

\* after a prey extinction the predator series may start below 1, even negative
PredatorsUnboundedBelow ==
    ~(pc = "done" /\ regime = "PREY_EXTINCT" /\ Lt(y[crossIdx], Zero))

====
